---- MODULE Spec2Model ----
(***************************************************************************)
(* hermes-pgx (v2): the pool adapter (DB), the transaction adapter (Tx)    *)
(* and the advisory lock subsystem, modelled as a state machine over the   *)
(* pgx connection pool and the PostgreSQL sessions behind it.              *)
(*                                                                         *)
(* The driver and the server are collaborators of the package: the model   *)
(* gives each statement the package issues (begin, savepoint, commit,      *)
(* rollback, the pg_advisory functions) the effect the server gives it on   *)
(* the session it runs on.  A statement that fails leaves the session as it *)
(* was.  A transaction handle whose connection has a statement in flight   *)
(* (a blocked pg_advisory_xact_lock) is not used by a second caller: pgx   *)
(* transactions are not safe for concurrent use.                           *)
(***************************************************************************)
EXTENDS Naturals, Integers, Sequences, FiniteSets, TLC

\* Bounds of the model.
MaxConns == 2
NumProcs == 2
MaxTx == 2
MaxUnlocks == 2

\* Lock ids used by the callers (the ids of the package's lock tests).
LockIds == {12}

Conns == 1..MaxConns
Procs == 1..NumProcs

\* A nil *pgx.Conn, a nil lock, a nil transaction.
NoConn == 0

\* Error values returned to callers.
ErrNil == "nil"
ErrLocked == "ErrLocked"
ErrTxClosed == "ErrTxClosed"
ErrTxCommitRollback == "ErrTxCommitRollback"
ErrDriver == "ErrDriver"

VARIABLES
    pool,   \* pool[c]: "idle" (in the pool) or "out" (checked out)
    sess,   \* sess[c]: the server's state of the session behind connection c
    rows,   \* the rows committed to the database
    locks,  \* the SessionAdvisoryLock objects created so far
    txs,    \* the Tx objects created so far
    pc,     \* pc[p]: the call caller p is inside of, at its blocking point
    ret,    \* the last call that returned, with what it returned
    now,            \* the clock (time.Now), in seconds
    defaultTimeout, \* defaultTimeout[h]: the field of the DB and of the Tx
    ctxs,           \* the contexts created so far
    out,            \* what the last WithTimeout call returned
    ctxtxs          \* the ContextualTx objects created so far

\* The state of the pool, the server and the callers.
dbvars == <<pool, sess, rows, locks, txs, pc, ret>>

\* The state of the clock, the timeouts and the contexts.
tvars == <<now, defaultTimeout, ctxs, out, ctxtxs>>

vars == <<pool, sess, rows, locks, txs, pc, ret,
          now, defaultTimeout, ctxs, out, ctxtxs>>

Idle == [op |-> "idle"]

Return(op, err) == [op |-> op, err |-> err]

NoSession == [slocks |-> {}, stack |-> <<>>, aborted |-> FALSE]

\* The pool after Connect: every connection idle, nothing begun or locked.
Connected ==
    /\ pool = [c \in Conns |-> "idle"]
    /\ sess = [c \in Conns |-> NoSession]
    /\ rows = {}
    /\ locks = <<>>
    /\ txs = <<>>
    /\ pc = [p \in Procs |-> Idle]
    /\ ret = Return("none", ErrNil)

\* context.Background(): no deadline, never cancelled.
Background == [has |-> FALSE, deadline |-> 0, cancelled |-> FALSE]

\* The handles that carry a default timeout.
Handles == {"DB", "Tx"}

\* No WithTimeout call has returned yet.
NoOut == [ctx |-> 0, fake |-> TRUE]

\* &DB{pool}: no default timeout is configured, no context is derived.
Init ==
    /\ Connected
    /\ now = 0
    /\ defaultTimeout = [h \in Handles |-> 0]
    /\ ctxs = <<Background>>
    /\ out = NoOut
    /\ ctxtxs = <<>>

(***************************************************************************)
(* The server: advisory locks of a session.                                *)
(***************************************************************************)

\* The ids session c holds at transaction level: those of every open
\* (sub)transaction frame of its transaction.
XactLocks(c) == UNION {sess[c].stack[i].xl : i \in DOMAIN sess[c].stack}

HeldBy(c, k) == k \in sess[c].slocks \/ k \in XactLocks(c)

\* pg_try_advisory_lock / pg_try_advisory_xact_lock on session c: the lock is
\* granted unless another session holds it (a session may re-acquire its own).
Available(c, k) == \A d \in Conns \ {c} : ~HeldBy(d, k)

\* A statement is in flight on connection c: a caller is blocked in it.
Busy(c) == \E p \in Procs : pc[p].op \in {"DBLock", "TxLock"} /\ pc[p].conn = c

\* Caller p makes a call: it is inside no other call.  Callers are
\* interchangeable, so the call is made by the first one that is free.
Calls(p) == pc[p] = Idle /\ \A q \in Procs : pc[q] = Idle => p <= q

(***************************************************************************)
(* The pool: pgxpool.Pool.Acquire hands out an idle connection, and blocks *)
(* while there is none.                                                    *)
(***************************************************************************)
IdleConns == {c \in Conns : pool[c] = "idle"}

\* A pool that hands out a connection whether or not it is checked out.
AcquireAny == CHOOSE c \in Conns : \A d \in Conns : c <= d

AcquireConn == CHOOSE c \in IdleConns : \A d \in IdleConns : c <= d

(***************************************************************************)
(* Session locks: SessionAdvisoryLock, DB.Lock, DB.TryLock, Release.       *)
(***************************************************************************)

\* A lock object that keeps another connection than the one its lock
\* statement ran on.
NewLockElsewhere(k, c) ==
    [ID |-> k, conn |-> (c % MaxConns) + 1, mutex |-> 0, unlocks |-> 0]

\* &SessionAdvisoryLock{ID: id, conn: conn.Conn()}; unlocks counts the unlock
\* statements the server has executed for this lock object.
NewLock(k, c) == [ID |-> k, conn |-> c, mutex |-> 0, unlocks |-> 0]

\* DB.Lock up to its blocking point: db.Acquire checks a connection out of the
\* pool and conn.Exec sends SELECT pg_advisory_lock($1), which waits in the
\* server.  Nothing on any path gives the connection back to the pool.
DBLock(p, k) ==
    /\ Calls(p)
    /\ IdleConns # {}
    /\ LET c == AcquireConn IN
        /\ pool' = [pool EXCEPT ![c] = "out"]
        /\ pc' = [pc EXCEPT ![p] = [op |-> "DBLock", id |-> k, conn |-> c]]
    /\ UNCHANGED <<sess, rows, locks, txs, ret>>
    /\ UNCHANGED tvars

\* The server grants the lock; DB.Lock returns the SessionAdvisoryLock.
DBLockGranted(p) ==
    /\ pc[p].op = "DBLock"
    /\ Available(pc[p].conn, pc[p].id)
    /\ sess' = [sess EXCEPT ![pc[p].conn].slocks = @ \cup {pc[p].id}]
    /\ locks' = Append(locks, NewLock(pc[p].id, pc[p].conn))
    /\ ret' = Return("DBLock", ErrNil)
    /\ pc' = [pc EXCEPT ![p] = Idle]
    /\ UNCHANGED <<pool, rows, txs>>
    /\ UNCHANGED tvars

\* A Lock that gives up with ErrLocked when another session holds the id.
DBLockRefused(p) ==
    /\ pc[p].op = "DBLock"
    /\ ~Available(pc[p].conn, pc[p].id)
    /\ ret' = Return("DBLock", ErrLocked)
    /\ pc' = [pc EXCEPT ![p] = Idle]
    /\ UNCHANGED <<pool, sess, rows, locks, txs>>
    /\ UNCHANGED tvars

\* conn.Exec fails while waiting (the context ends, the connection breaks):
\* DB.Lock returns nil and the error.
DBLockFailed(p) ==
    /\ pc[p].op = "DBLock"
    /\ ret' = Return("DBLock", ErrDriver)
    /\ pc' = [pc EXCEPT ![p] = Idle]
    /\ UNCHANGED <<pool, sess, rows, locks, txs>>
    /\ UNCHANGED tvars

\* A TryLock that does not look at the scanned flag.
TryLockResultUnchecked(available) == ErrNil

\* if !available { return nil, ErrLocked }
TryLockResult(available) == IF available THEN ErrNil ELSE ErrLocked

\* DB.TryLock: db.Acquire, SELECT pg_try_advisory_lock($1), row.Scan (ok: the
\* scan succeeds), then the check of the scanned flag.
DBTryLock(p, k, ok) ==
    /\ Calls(p)
    /\ IdleConns # {}
    /\ LET c == AcquireConn
           available == Available(c, k)
       IN
        /\ pool' = [pool EXCEPT ![c] = "out"]
        /\ IF ~ok
             THEN /\ ret' = Return("DBTryLock", ErrDriver)
                  /\ UNCHANGED <<sess, locks>>
             ELSE /\ sess' = IF available
                               THEN [sess EXCEPT ![c].slocks = @ \cup {k}]
                               ELSE sess
                  /\ IF TryLockResult(available) = ErrLocked
                       THEN /\ ret' = Return("DBTryLock", ErrLocked)
                            /\ UNCHANGED locks
                       ELSE /\ locks' = Append(locks, NewLock(k, c))
                            /\ ret' = Return("DBTryLock", ErrNil)
    /\ UNCHANGED <<rows, txs, pc>>
    /\ UNCHANGED tvars

\* A Release that does not take the mutex.
MutexIgnored(lock) == TRUE

\* lock.mutex.Lock() returns once no other Release holds the mutex.
MutexFree(lock) == lock.mutex = 0

\* A Release that does not test lock.conn.
NeverReleased(lock) == FALSE

\* if lock.conn == nil { return nil }
AlreadyReleased(lock) == lock.conn = NoConn

\* SessionAdvisoryLock.Release up to the unlock statement: take the mutex and
\* test lock.conn; a released lock returns nil at once (the deferred
\* mutex.Unlock runs in the same step).
Release(p, i) ==
    /\ Calls(p)
    /\ i \in DOMAIN locks
    /\ MutexFree(locks[i])
    /\ IF AlreadyReleased(locks[i])
         THEN /\ ret' = Return("Release", ErrNil)
              /\ UNCHANGED <<locks, pc>>
         ELSE /\ locks' = [locks EXCEPT ![i].mutex = p]
              /\ pc' = [pc EXCEPT ![p] =
                          [op |-> "Release", lock |-> i, conn |-> locks[i].conn]]
              /\ UNCHANGED ret
    /\ UNCHANGED <<pool, sess, rows, txs>>
    /\ UNCHANGED tvars

\* A Release that clears lock.conn before it looks at the error of the
\* unlock statement.
ReleaseExecClears(p, ok) ==
    /\ pc[p].op = "Release"
    /\ LET i == pc[p].lock
           c == pc[p].conn
       IN /\ sess' = IF ok THEN [sess EXCEPT ![c].slocks = @ \ {locks[i].ID}]
                           ELSE sess
          /\ locks' = [locks EXCEPT ![i].conn = NoConn, ![i].mutex = 0,
                                    ![i].unlocks =
                                        IF ok /\ @ < MaxUnlocks THEN @ + 1 ELSE @]
          /\ ret' = Return("Release", IF ok THEN ErrNil ELSE ErrDriver)
    /\ pc' = [pc EXCEPT ![p] = Idle]
    /\ UNCHANGED <<pool, rows, txs>>
    /\ UNCHANGED tvars

\* The rest of Release: lock.conn.Exec(SELECT pg_advisory_unlock($1)); on an
\* error return it, else lock.conn = nil; the deferred mutex.Unlock.  The
\* *pgxpool.Conn the lock was taken on is not released to the pool.
ReleaseExec(p, ok) ==
    /\ pc[p].op = "Release"
    /\ LET i == pc[p].lock
           c == pc[p].conn
       IN IF ~ok
            THEN /\ locks' = [locks EXCEPT ![i].mutex = 0]
                 /\ ret' = Return("Release", ErrDriver)
                 /\ UNCHANGED sess
            ELSE /\ sess' = [sess EXCEPT ![c].slocks = @ \ {locks[i].ID}]
                 /\ locks' = [locks EXCEPT ![i].conn = NoConn,
                                           ![i].mutex = 0,
                                           ![i].unlocks =
                                               IF @ < MaxUnlocks THEN @ + 1 ELSE @]
                 /\ ret' = Return("Release", ErrNil)
    /\ pc' = [pc EXCEPT ![p] = Idle]
    /\ UNCHANGED <<pool, rows, txs>>
    /\ UNCHANGED tvars

(***************************************************************************)
(* The server: transactions and savepoints of a session.  sess[c].stack is *)
(* the open transaction of session c: frame 1 is the transaction itself    *)
(* (sp = 0), each further frame a savepoint sp_n inside it, holding the    *)
(* rows inserted and the transaction-level locks taken since it was set.   *)
(***************************************************************************)
Frame(n) == [sp |-> n, rows |-> {}, xl |-> {}]

\* The position of savepoint sp_n in the stack of s, 0 when there is none.
FrameOf(s, n) ==
    LET at == {j \in DOMAIN s.stack : s.stack[j].sp = n}
    IN IF at = {} THEN 0 ELSE CHOOSE j \in at : \A i \in at : i <= j

\* begin
SrvBegin(s) == [s EXCEPT !.stack = <<Frame(0)>>, !.aborted = FALSE]

\* savepoint sp_n
SrvSavepoint(s, n) == [s EXCEPT !.stack = Append(@, Frame(n))]

\* release savepoint sp_n: the savepoint and those set after it are merged
\* into the frame below: rows and locks stay with the transaction.  Naming a
\* savepoint that does not exist aborts the transaction.
SrvRelease(s, n) ==
    LET j == FrameOf(s, n)
        up == {i \in DOMAIN s.stack : i >= j}
    IN IF j = 0
         THEN [s EXCEPT !.aborted = TRUE]
         ELSE [s EXCEPT !.stack =
                 [i \in 1..(j - 1) |->
                    IF i = j - 1
                      THEN [s.stack[i] EXCEPT
                              !.rows = @ \cup UNION {s.stack[u].rows : u \in up},
                              !.xl = @ \cup UNION {s.stack[u].xl : u \in up}]
                      ELSE s.stack[i]]]

\* rollback to savepoint sp_n; release savepoint sp_n: the rows inserted and
\* the locks taken since the savepoint are dropped with it.
SrvRollbackTo(s, n) ==
    LET j == FrameOf(s, n)
    IN IF j = 0
         THEN [s EXCEPT !.aborted = TRUE]
         ELSE [s EXCEPT !.stack = SubSeq(@, 1, j - 1), !.aborted = FALSE]

\* The rows a commit of the transaction of s makes durable.
PendingRows(s) == UNION {s.stack[i].rows : i \in DOMAIN s.stack}

\* commit / rollback end the transaction: its transaction-level locks go.
SrvEnd(s) == [s EXCEPT !.stack = <<>>, !.aborted = FALSE]

\* An insert lands in the innermost frame, and so does a transaction-level
\* lock.
SrvInsert(s, r) == [s EXCEPT !.stack[Len(s.stack)].rows = @ \cup {r}]

\* A lock statement that takes the lock at session level.
SrvSessionLock(s, k) == [s EXCEPT !.slocks = @ \cup {k}]

\* pg_advisory_xact_lock / pg_try_advisory_xact_lock, granted.
SrvXactLock(s, k) == [s EXCEPT !.stack[Len(s.stack)].xl = @ \cup {k}]

(***************************************************************************)
(* Transactions: DB.Begin, Tx.Begin, Commit, Close, Exec.                  *)
(*                                                                         *)
(* Callers begin, insert and lock only through a transaction they have not *)
(* closed; Commit and Close are called in any state.                       *)
(***************************************************************************)

\* &Tx{tx, ...}: conn is the connection of the pgx transaction, sp its
\* savepoint number (0: a real transaction), root the Tx of the real
\* transaction, spnum the savepoint counter of the real transaction.
\* xlocks (the ids of the TxAdvisoryLocks returned through it), wrote (an
\* insert through it returned nil) and committed (Commit returned nil) record
\* what has been done through it.  defaultTimeout is the field of the Tx,
\* zero unless the literal that builds the Tx gives it; timeoutSet records
\* that SetTimeout was called on it.
NewTx(c, n, r) ==
    [conn |-> c, sp |-> n, root |-> r, closed |-> FALSE, spnum |-> 0,
     xlocks |-> {}, wrote |-> FALSE, committed |-> FALSE,
     defaultTimeout |-> 0, timeoutSet |-> FALSE]

\* A Close that sends its rollback whatever the state of the transaction.
TxNeverClosed(t) == FALSE

\* pgx refuses a closed transaction, and a savepoint whose real transaction
\* is closed, with ErrTxClosed before any statement is sent.
TxClosed(t) == txs[t].closed \/ txs[txs[t].root].closed

\* The Tx objects a caller may begin, insert or lock through.
OpenTxs == {t \in DOMAIN txs : ~TxClosed(t) /\ ~Busy(txs[t].conn)}

\* DB.Begin: db.Pool.Begin checks a connection out and begins a transaction
\* on it.
DBBegin(p) ==
    /\ Calls(p)
    /\ Len(txs) < MaxTx
    /\ IdleConns # {}
    /\ LET c == AcquireConn IN
        /\ pool' = [pool EXCEPT ![c] = "out"]
        /\ sess' = [sess EXCEPT ![c] = SrvBegin(@)]
        /\ txs' = Append(txs, [NewTx(c, 0, Len(txs) + 1) EXCEPT
                                    !.defaultTimeout = defaultTimeout["DB"]])
    /\ ret' = Return("DBBegin", ErrNil)
    /\ UNCHANGED <<rows, locks, pc>>
    /\ UNCHANGED tvars

\* Tx.Begin: tx.Tx.Begin sets savepoint sp_n on the transaction's connection;
\* the statement fails in an aborted transaction.
TxBegin(p, t) ==
    /\ Calls(p)
    /\ t \in OpenTxs
    /\ Len(txs) < MaxTx
    /\ LET c == txs[t].conn
           r == txs[t].root
           n == txs[r].spnum + 1
       IN IF sess[c].aborted
            THEN /\ txs' = [txs EXCEPT ![r].spnum = n]
                 /\ ret' = Return("TxBegin", ErrDriver)
                 /\ UNCHANGED sess
            ELSE /\ sess' = [sess EXCEPT ![c] = SrvSavepoint(@, n)]
                 /\ txs' = Append([txs EXCEPT ![r].spnum = n], NewTx(c, n, r))
                 /\ ret' = Return("TxBegin", ErrNil)
    /\ UNCHANGED <<pool, rows, locks, pc>>
    /\ UNCHANGED tvars

\* Exec through a transaction: the insert of the transaction's own row t,
\* when the row is not there yet.
TxExec(p, t) ==
    /\ Calls(p)
    /\ t \in OpenTxs
    /\ t \notin rows \cup PendingRows(sess[txs[t].conn])
    /\ LET c == txs[t].conn
       IN IF sess[c].aborted
            THEN /\ ret' = Return("TxExec", ErrDriver)
                 /\ UNCHANGED <<sess, txs>>
            ELSE /\ sess' = [sess EXCEPT ![c] = SrvInsert(@, t)]
                 /\ txs' = [txs EXCEPT ![t].wrote = TRUE]
                 /\ ret' = Return("TxExec", ErrNil)
    /\ UNCHANGED <<pool, rows, locks, pc>>
    /\ UNCHANGED tvars

\* Commit of a real transaction: commit, then the connection goes back to
\* the pool.  The server turns the commit of an aborted transaction into a
\* rollback, which pgx reports as ErrTxCommitRollback.
CommitRoot(t) ==
    LET c == txs[t].conn
    IN /\ rows' = IF sess[c].aborted THEN rows ELSE rows \cup PendingRows(sess[c])
       /\ sess' = [sess EXCEPT ![c] = SrvEnd(@)]
       /\ pool' = [pool EXCEPT ![c] = "idle"]
       /\ txs' = [txs EXCEPT ![t].closed = TRUE, ![t].committed = ~sess[c].aborted]
       /\ ret' = Return("TxCommit",
                        IF sess[c].aborted THEN ErrTxCommitRollback ELSE ErrNil)

\* A Commit of a pseudo nested transaction that makes the rows pending on its
\* connection durable.
CommitSavepointDurable(t) ==
    LET c == txs[t].conn
        done == ~sess[c].aborted /\ FrameOf(sess[c], txs[t].sp) # 0
    IN /\ sess' = IF sess[c].aborted
                    THEN sess
                    ELSE [sess EXCEPT ![c] = SrvRelease(@, txs[t].sp)]
       /\ rows' = IF done THEN rows \cup PendingRows(sess[c]) ELSE rows
       /\ txs' = [txs EXCEPT ![t].closed = TRUE, ![t].committed = done]
       /\ ret' = Return("TxCommit", IF done THEN ErrNil ELSE ErrDriver)
       /\ UNCHANGED pool

\* Commit of a pseudo nested transaction: release savepoint sp_n, which fails
\* in an aborted transaction.
CommitSavepoint(t) ==
    LET c == txs[t].conn
        done == ~sess[c].aborted /\ FrameOf(sess[c], txs[t].sp) # 0
    IN /\ sess' = IF sess[c].aborted
                    THEN sess
                    ELSE [sess EXCEPT ![c] = SrvRelease(@, txs[t].sp)]
       /\ txs' = [txs EXCEPT ![t].closed = TRUE, ![t].committed = done]
       /\ ret' = Return("TxCommit", IF done THEN ErrNil ELSE ErrDriver)
       /\ UNCHANGED <<pool, rows>>

\* Tx.Commit (the embedded pgx.Tx).
TxCommit(p, t) ==
    /\ Calls(p)
    /\ t \in DOMAIN txs
    /\ ~Busy(txs[t].conn)
    /\ IF TxClosed(t)
         THEN /\ ret' = Return("TxCommit", ErrTxClosed)
              /\ txs' = [txs EXCEPT ![t].closed = TRUE]
              /\ UNCHANGED <<pool, sess, rows>>
         ELSE IF txs[t].sp = 0 THEN CommitRoot(t) ELSE CommitSavepoint(t)
    /\ UNCHANGED <<locks, pc>>
    /\ UNCHANGED tvars

\* A Rollback that gives the connection back without sending rollback.
RollbackRootUnsent(t) ==
    LET c == txs[t].conn
    IN /\ sess' = sess
       /\ pool' = [pool EXCEPT ![c] = "idle"]
       /\ txs' = [txs EXCEPT ![t].closed = TRUE]
       /\ ret' = Return("TxClose", ErrNil)

\* Rollback of a real transaction: rollback, then the connection goes back
\* to the pool.
RollbackRoot(t) ==
    LET c == txs[t].conn
    IN /\ sess' = [sess EXCEPT ![c] = SrvEnd(@)]
       /\ pool' = [pool EXCEPT ![c] = "idle"]
       /\ txs' = [txs EXCEPT ![t].closed = TRUE]
       /\ ret' = Return("TxClose", ErrNil)

\* A Close of a pseudo nested transaction that releases its savepoint.
RollbackSavepointReleases(t) ==
    LET c == txs[t].conn
        done == FrameOf(sess[c], txs[t].sp) # 0
    IN /\ sess' = [sess EXCEPT ![c] = SrvRelease(@, txs[t].sp)]
       /\ txs' = [txs EXCEPT ![t].closed = TRUE]
       /\ ret' = Return("TxClose", IF done THEN ErrNil ELSE ErrDriver)
       /\ UNCHANGED pool

\* Rollback of a pseudo nested transaction: rollback to savepoint sp_n.
RollbackSavepoint(t) ==
    LET c == txs[t].conn
        done == FrameOf(sess[c], txs[t].sp) # 0
    IN /\ sess' = [sess EXCEPT ![c] = SrvRollbackTo(@, txs[t].sp)]
       /\ txs' = [txs EXCEPT ![t].closed = TRUE]
       /\ ret' = Return("TxClose", IF done THEN ErrNil ELSE ErrDriver)
       /\ UNCHANGED pool

\* Tx.Close: return tx.Tx.Rollback(ctx).
TxClose(p, t) ==
    /\ Calls(p)
    /\ t \in DOMAIN txs
    /\ ~Busy(txs[t].conn)
    /\ IF TxClosed(t)
         THEN /\ ret' = Return("TxClose", ErrTxClosed)
              /\ txs' = [txs EXCEPT ![t].closed = TRUE]
              /\ UNCHANGED <<pool, sess>>
         ELSE IF txs[t].sp = 0 THEN RollbackRoot(t) ELSE RollbackSavepoint(t)
    /\ UNCHANGED <<rows, locks, pc>>
    /\ UNCHANGED tvars

(***************************************************************************)
(* Transaction locks: Tx.Lock, Tx.TryLock.                                 *)
(***************************************************************************)

\* Tx.Lock up to its blocking point: tx.Conn().Exec sends SELECT
\* pg_advisory_xact_lock($1) on the transaction's connection.  The statement
\* fails at once in an aborted transaction.
TxLock(p, t, k) ==
    /\ Calls(p)
    /\ t \in OpenTxs
    /\ IF sess[txs[t].conn].aborted
         THEN /\ ret' = Return("TxLock", ErrDriver)
              /\ UNCHANGED pc
         ELSE /\ pc' = [pc EXCEPT ![p] =
                          [op |-> "TxLock", tx |-> t, id |-> k, conn |-> txs[t].conn]]
              /\ UNCHANGED ret
    /\ UNCHANGED <<pool, sess, rows, locks, txs>>
    /\ UNCHANGED tvars

\* The server grants the lock to the session's transaction, in its innermost
\* savepoint; Tx.Lock returns &TxAdvisoryLock{ID: id}.
TxLockGranted(p) ==
    /\ pc[p].op = "TxLock"
    /\ Available(pc[p].conn, pc[p].id)
    /\ sess' = [sess EXCEPT ![pc[p].conn] = SrvXactLock(@, pc[p].id)]
    /\ txs' = [txs EXCEPT ![pc[p].tx].xlocks = @ \cup {pc[p].id}]
    /\ ret' = Return("TxLock", ErrNil)
    /\ pc' = [pc EXCEPT ![p] = Idle]
    /\ UNCHANGED <<pool, rows, locks>>
    /\ UNCHANGED tvars

\* Tx.TryLock: tx.QueryRow(SELECT pg_try_advisory_xact_lock($1)), row.Scan,
\* then the check of the scanned flag.
TxTryLock(p, t, k) ==
    /\ Calls(p)
    /\ t \in OpenTxs
    /\ LET c == txs[t].conn
           available == Available(c, k)
       IN IF sess[c].aborted
            THEN /\ ret' = Return("TxTryLock", ErrDriver)
                 /\ UNCHANGED <<sess, txs>>
            ELSE /\ sess' = IF available
                              THEN [sess EXCEPT ![c] = SrvXactLock(@, k)]
                              ELSE sess
                 /\ IF TryLockResult(available) = ErrLocked
                      THEN /\ ret' = Return("TxTryLock", ErrLocked)
                           /\ UNCHANGED txs
                      ELSE /\ txs' = [txs EXCEPT ![t].xlocks = @ \cup {k}]
                           /\ ret' = Return("TxTryLock", ErrNil)
    /\ UNCHANGED <<pool, rows, locks, pc>>
    /\ UNCHANGED tvars

\* A Release that unlocks id k in the session's transaction.
SrvXactUnlock(s, k) ==
    [s EXCEPT !.stack = [i \in DOMAIN s.stack |-> [s.stack[i] EXCEPT !.xl = @ \ {k}]]]

\* What TxAdvisoryLock.Release does to the session: nothing, no statement is
\* sent.
ReleaseNothing(s, k) == s

\* TxAdvisoryLock.Release on the lock of id k returned through transaction
\* t: return nil.
TxAdvisoryLockRelease(p, t, k) ==
    /\ Calls(p)
    /\ t \in DOMAIN txs
    /\ k \in txs[t].xlocks
    /\ sess' = [sess EXCEPT ![txs[t].conn] = ReleaseNothing(@, k)]
    /\ ret' = Return("TxAdvisoryLockRelease", ErrNil)
    /\ UNCHANGED <<pool, rows, locks, txs, pc>>
    /\ UNCHANGED tvars

(***************************************************************************)
(* The pool as a Conn: DB.Commit, DB.Rollback, DB.Close.                   *)
(***************************************************************************)

\* A Close that closes the embedded pool, as pgxpool.Pool.Close would.
PoolShutDown(pl) == [c \in DOMAIN pl |-> "closed"]

\* The pool after DB.Commit, DB.Rollback or DB.Close: each is `return nil`.
PoolKept(pl) == pl

\* DB.Commit does nothing.
DBCommit(p) ==
    /\ Calls(p)
    /\ pool' = PoolKept(pool)
    /\ ret' = Return("DBCommit", ErrNil)
    /\ UNCHANGED <<sess, rows, locks, txs, pc>>
    /\ UNCHANGED tvars

\* DB.Rollback does nothing.
DBRollback(p) ==
    /\ Calls(p)
    /\ pool' = PoolKept(pool)
    /\ ret' = Return("DBRollback", ErrNil)
    /\ UNCHANGED <<sess, rows, locks, txs, pc>>
    /\ UNCHANGED tvars

\* DB.Close does nothing.
DBClose(p) ==
    /\ Calls(p)
    /\ pool' = PoolKept(pool)
    /\ ret' = Return("DBClose", ErrNil)
    /\ UNCHANGED <<sess, rows, locks, txs, pc>>
    /\ UNCHANGED tvars

(***************************************************************************)
(* The system: any caller may make any call at any time.                   *)
(***************************************************************************)
Next ==
    \/ \E p \in Procs, k \in LockIds : DBLock(p, k)
    \/ \E p \in Procs : DBLockGranted(p)
    \/ \E p \in Procs : DBLockFailed(p)
    \/ \E p \in Procs, k \in LockIds, ok \in BOOLEAN : DBTryLock(p, k, ok)
    \/ \E p \in Procs, i \in DOMAIN locks : Release(p, i)
    \/ \E p \in Procs, ok \in BOOLEAN : ReleaseExec(p, ok)
    \/ \E p \in Procs : DBBegin(p)
    \/ \E p \in Procs, t \in DOMAIN txs : TxBegin(p, t)
    \/ \E p \in Procs, t \in DOMAIN txs : TxExec(p, t)
    \/ \E p \in Procs, t \in DOMAIN txs : TxCommit(p, t)
    \/ \E p \in Procs, t \in DOMAIN txs : TxClose(p, t)
    \/ \E p \in Procs, t \in DOMAIN txs, k \in LockIds : TxLock(p, t, k)
    \/ \E p \in Procs : TxLockGranted(p)
    \/ \E p \in Procs, t \in DOMAIN txs, k \in LockIds : TxTryLock(p, t, k)
    \/ \E p \in Procs : DBCommit(p)
    \/ \E p \in Procs : DBRollback(p)
    \/ \E p \in Procs : DBClose(p)
    \/ \E p \in Procs, t \in DOMAIN txs, k \in LockIds : TxAdvisoryLockRelease(p, t, k)

Spec == Init /\ [][Next]_vars

\* The server grants a waiting lock request once the lock is free.
FairSpec ==
    /\ Spec
    /\ \A p \in Procs : WF_vars(DBLockGranted(p)) /\ WF_vars(TxLockGranted(p))

(***************************************************************************)
(* Timeouts: SetTimeout and WithTimeout, on the pool and on a transaction. *)
(* Time is counted in seconds; a context is an entry of ctxs, entry 1      *)
(* being context.Background().                                            *)
(***************************************************************************)

\* Bounds of the timeout model: the clock, the durations and deadlines the
\* callers use, the contexts created.
MaxNow == 2
MaxDur == 2
MaxCtxs == 3

\* time.Second
Second == 1

\* A nil context.Context argument.
NilCtx == 0

Durations == 0..MaxDur

\* A context a caller made: with a deadline (context.WithDeadline) or
\* without one (context.WithCancel), on context.Background().
CallerCtx(has, d) ==
    [has |-> has, deadline |-> IF has THEN d ELSE 0, cancelled |-> FALSE]

\* The caller makes a context of its own.
CallerContext(has, d) ==
    /\ Len(ctxs) < MaxCtxs
    /\ ctxs' = Append(ctxs, CallerCtx(has, d))
    /\ UNCHANGED <<now, defaultTimeout, out, ctxtxs>>
    /\ UNCHANGED dbvars

\* Time passes.
Tick ==
    /\ now < MaxNow
    /\ now' = now + 1
    /\ UNCHANGED <<defaultTimeout, ctxs, out, ctxtxs>>
    /\ UNCHANGED dbvars

\* DB.SetTimeout: db.defaultTimeout = dur
DBSetTimeout(dur) ==
    /\ defaultTimeout' = [defaultTimeout EXCEPT !["DB"] = dur]
    /\ UNCHANGED <<now, ctxs, out, ctxtxs>>
    /\ UNCHANGED dbvars

\* Tx.SetTimeout: tx.defaultTimeout = dur
TxSetTimeout(dur) ==
    /\ defaultTimeout' = [defaultTimeout EXCEPT !["Tx"] = dur]
    /\ UNCHANGED <<now, ctxs, out, ctxtxs>>
    /\ UNCHANGED dbvars

\* A WithTimeout that does not look for a deadline.
DeadlineNotSeen(c) == FALSE

\* _, ok := ctx.Deadline()
HasDeadline(c) == ctxs[c].has

\* A WithTimeout without the fallback to one second.
TimeoutAsSet(dur) == dur

\* timeout := defaultTimeout; if timeout == 0 { timeout = time.Second }
Timeout(dur) == IF dur = 0 THEN Second ELSE dur

\* context.WithTimeout(parent, timeout): a child of parent whose deadline is
\* now + timeout, or the parent's when that one is earlier.
ContextWithTimeout(parent, timeout) ==
    [has |-> TRUE,
     deadline |-> IF ctxs[parent].has /\ ctxs[parent].deadline < now + timeout
                    THEN ctxs[parent].deadline
                    ELSE now + timeout,
     cancelled |-> FALSE]

\* The body of WithTimeout of handle h (the DB or a Tx) on context c: a nil
\* ctx is context.Background(); a context with a deadline is returned as it
\* is with fakeCancel; else a new context is derived with the default
\* timeout.
WithTimeoutOf(dur, c) ==
    LET ctx == IF c = NilCtx THEN 1 ELSE c
    IN /\ c \in {NilCtx} \cup DOMAIN ctxs
       /\ IF HasDeadline(ctx)
            THEN /\ out' = [ctx |-> ctx, fake |-> TRUE]
                 /\ UNCHANGED ctxs
            ELSE /\ Len(ctxs) < MaxCtxs
                 /\ ctxs' = Append(ctxs, ContextWithTimeout(ctx, Timeout(dur)))
                 /\ out' = [ctx |-> Len(ctxs) + 1, fake |-> FALSE]

\* WithTimeout of handle h, whose field defaultTimeout is defaultTimeout[h].
WithTimeoutBody(h, c) == WithTimeoutOf(defaultTimeout[h], c)

\* A call of WithTimeout by a caller.
WithTimeout(h, c) ==
    /\ WithTimeoutBody(h, c)
    /\ UNCHANGED <<now, defaultTimeout, ctxtxs>>
    /\ UNCHANGED dbvars

\* DB.WithTimeout
DBWithTimeout(c) == WithTimeout("DB", c)

\* Tx.WithTimeout
TxWithTimeout(c) == WithTimeout("Tx", c)

\* A cancellation function that cancels context c of the contexts cs.
CancelsContext(cs, c) == [cs EXCEPT ![c].cancelled = TRUE]

\* fakeCancel, returned with a context c that already has a deadline: it does
\* nothing to the contexts cs.
fakeCancel(cs, c) == cs

\* The caller invokes the cancellation function WithTimeout returned:
\* fakeCancel does nothing, the function of context.WithTimeout cancels the
\* derived context.
Cancel ==
    /\ out # NoOut
    /\ ctxs' = IF out.fake THEN fakeCancel(ctxs, out.ctx)
                           ELSE [ctxs EXCEPT ![out.ctx].cancelled = TRUE]
    /\ UNCHANGED <<now, defaultTimeout, out, ctxtxs>>
    /\ UNCHANGED dbvars

(***************************************************************************)
(* ContextualTx: BeginWithTimeout, Commit, Rollback, Close.                *)
(***************************************************************************)

\* How many times Close is called on one ContextualTx.
MaxCloses == 2

\* ctx.Done(): the context is cancelled or its deadline has passed.
Done(c) == ctxs[c].cancelled \/ (ctxs[c].has /\ ctxs[c].deadline <= now)

\* &ContextualTx{tx, ctx, cancel}, with the calls of Close begun and the
\* invocations of cancel counted, and closing set while Close is between its
\* Rollback and its deferred cancel.
NewContextualTx(t, o) ==
    [tx |-> t, ctx |-> o.ctx, fake |-> o.fake,
     closes |-> 0, cancels |-> 0, closing |-> FALSE]

\* The ContextualTx objects a caller may call: none is inside Close.
Callable == {i \in DOMAIN ctxtxs : ~ctxtxs[i].closing}

\* DB.BeginWithTimeout: db.WithTimeout(ctx), then db.Pool.Begin(ctx); when
\* Begin fails the call returns nil and err.  Begin fails on a context that
\* is done.
DBBeginWithTimeout(c, ok) ==
    /\ WithTimeoutBody("DB", c)
    /\ ok => ~(ctxs'[out'.ctx].has /\ ctxs'[out'.ctx].deadline <= now)
    /\ ok => ~ctxs'[out'.ctx].cancelled
    /\ IF ok
         THEN /\ Len(txs) < MaxTx
              /\ IdleConns # {}
              /\ LET a == AcquireConn IN
                   /\ pool' = [pool EXCEPT ![a] = "out"]
                   /\ sess' = [sess EXCEPT ![a] = SrvBegin(@)]
                   /\ txs' = Append(txs, NewTx(a, 0, Len(txs) + 1))
              /\ ctxtxs' = Append(ctxtxs, NewContextualTx(Len(txs) + 1, out'))
              /\ ret' = Return("DBBeginWithTimeout", ErrNil)
         ELSE /\ ret' = Return("DBBeginWithTimeout", ErrDriver)
              /\ UNCHANGED <<pool, sess, txs, ctxtxs>>
    /\ UNCHANGED <<rows, locks, pc, now, defaultTimeout>>

\* The commit or rollback statement of transaction t fails: pgx marks the
\* transaction closed; the connection of a real transaction is closed, which
\* ends its session on the server, and its slot goes back to the pool.
ExecFailed(t) ==
    LET a == txs[t].conn
    IN /\ txs' = [txs EXCEPT ![t].closed = TRUE]
       /\ IF txs[t].sp = 0
            THEN /\ sess' = [sess EXCEPT ![a] = NoSession]
                 /\ pool' = [pool EXCEPT ![a] = "idle"]
            ELSE UNCHANGED <<sess, pool>>
       /\ ret' = Return("ContextualTx", ErrDriver)

\* ContextualTx.Commit: tx.Tx.Commit(tx.ctx).  The statement fails on a
\* context that is done.
ContextualTxCommit(i, ok) ==
    /\ i \in Callable
    /\ ok => ~Done(ctxtxs[i].ctx)
    /\ LET t == ctxtxs[i].tx IN
         IF TxClosed(t)
           THEN /\ ret' = Return("TxCommit", ErrTxClosed)
                /\ txs' = [txs EXCEPT ![t].closed = TRUE]
                /\ UNCHANGED <<pool, sess, rows>>
           ELSE IF ~ok THEN ExecFailed(t) /\ UNCHANGED rows
           ELSE IF txs[t].sp = 0 THEN CommitRoot(t) ELSE CommitSavepoint(t)
    /\ UNCHANGED <<locks, pc>>
    /\ UNCHANGED tvars

\* tx.Tx.Rollback(tx.ctx), as ContextualTx.Rollback and ContextualTx.Close
\* call it.  The statement fails on a context that is done.
RollbackCall(i, ok) ==
    /\ ok => ~Done(ctxtxs[i].ctx)
    /\ LET t == ctxtxs[i].tx IN
         IF TxClosed(t)
           THEN /\ ret' = Return("TxClose", ErrTxClosed)
                /\ txs' = [txs EXCEPT ![t].closed = TRUE]
                /\ UNCHANGED <<pool, sess>>
           ELSE IF ~ok THEN ExecFailed(t)
           ELSE IF txs[t].sp = 0 THEN RollbackRoot(t) ELSE RollbackSavepoint(t)
    /\ UNCHANGED <<rows, locks, pc>>

\* ContextualTx.Rollback
ContextualTxRollback(i, ok) ==
    /\ i \in Callable
    /\ RollbackCall(i, ok)
    /\ UNCHANGED tvars

\* A Close that invokes cancel only when its rollback succeeded.
CancelOnSuccess(err) == err = ErrNil

\* defer tx.cancel(): the deferred call runs whatever Rollback returned.
CancelDeferred(err) == TRUE

\* ContextualTx.Close up to the return of tx.Rollback().
ContextualTxClose(i, ok) ==
    /\ i \in Callable
    /\ ctxtxs[i].closes < MaxCloses
    /\ RollbackCall(i, ok)
    /\ ctxtxs' = [ctxtxs EXCEPT ![i].closes = @ + 1, ![i].closing = TRUE]
    /\ UNCHANGED <<now, defaultTimeout, ctxs, out>>

\* ContextualTx.Close, the deferred tx.cancel() and the return: fakeCancel
\* does nothing, the function of context.WithTimeout cancels tx.ctx.
ContextualTxCloseReturn(i) ==
    /\ i \in DOMAIN ctxtxs
    /\ ctxtxs[i].closing
    /\ IF CancelDeferred(ret.err)
         THEN /\ ctxtxs' = [ctxtxs EXCEPT ![i].cancels = @ + 1,
                                          ![i].closing = FALSE]
              /\ ctxs' = IF ctxtxs[i].fake
                           THEN fakeCancel(ctxs, ctxtxs[i].ctx)
                           ELSE [ctxs EXCEPT ![ctxtxs[i].ctx].cancelled = TRUE]
         ELSE /\ ctxtxs' = [ctxtxs EXCEPT ![i].closing = FALSE]
              /\ UNCHANGED ctxs
    /\ UNCHANGED <<now, defaultTimeout, out>>
    /\ UNCHANGED dbvars

\* Any default timeouts may have been configured.
TimeoutInit ==
    /\ Connected
    /\ now = 0
    /\ defaultTimeout \in [Handles -> Durations]
    /\ ctxs = <<Background>>
    /\ out = NoOut
    /\ ctxtxs = <<>>

TimeoutNext ==
    \/ \E has \in BOOLEAN, d \in 0..MaxNow : CallerContext(has, d)
    \/ Tick
    \/ \E dur \in Durations : DBSetTimeout(dur)
    \/ \E dur \in Durations : TxSetTimeout(dur)
    \/ \E c \in {NilCtx} \cup DOMAIN ctxs : DBWithTimeout(c)
    \/ \E c \in {NilCtx} \cup DOMAIN ctxs : TxWithTimeout(c)
    \/ Cancel

TimeoutSpec == TimeoutInit /\ [][TimeoutNext]_vars

\* The callers of contextual transactions: they make contexts, let time
\* pass, begin transactions and commit, roll back and close them.
ContextualNext ==
    \/ \E has \in BOOLEAN, d \in 0..MaxNow : CallerContext(has, d)
    \/ Tick
    \/ \E c \in {NilCtx} \cup DOMAIN ctxs, ok \in BOOLEAN : DBBeginWithTimeout(c, ok)
    \/ \E i \in DOMAIN ctxtxs, ok \in BOOLEAN : ContextualTxCommit(i, ok)
    \/ \E i \in DOMAIN ctxtxs, ok \in BOOLEAN : ContextualTxRollback(i, ok)
    \/ \E i \in DOMAIN ctxtxs, ok \in BOOLEAN : ContextualTxClose(i, ok)
    \/ \E i \in DOMAIN ctxtxs : ContextualTxCloseReturn(i)

ContextualSpec == Init /\ [][ContextualNext]_vars

(***************************************************************************)
(* DB.Lock under a deadline: the caller derives a context with             *)
(* db.WithTimeout and passes it to db.Lock.                                *)
(***************************************************************************)

\* A driver that does not watch the context of a statement.
NeverDone(c) == FALSE

\* The driver watches the context of the statement in flight: once it is
\* done the statement fails.
CtxDone(c) == Done(c)

\* DB.Lock(ctx, id) with the context WithTimeout returned, up to its blocking
\* point: db.Acquire(ctx) fails on a context that is done, else it checks a
\* connection out and conn.Exec(ctx, SELECT pg_advisory_lock($1)) is sent.
DBLockCtx(p, k) ==
    /\ Calls(p)
    /\ out # NoOut
    /\ IF CtxDone(out.ctx)
         THEN /\ ret' = Return("DBLock", ErrDriver)
              /\ UNCHANGED <<pool, pc>>
         ELSE /\ IdleConns # {}
              /\ LET c == AcquireConn IN
                   /\ pool' = [pool EXCEPT ![c] = "out"]
                   /\ pc' = [pc EXCEPT ![p] = [op |-> "DBLock", id |-> k,
                                               conn |-> c, ctx |-> out.ctx]]
              /\ UNCHANGED ret
    /\ UNCHANGED <<sess, rows, locks, txs>>
    /\ UNCHANGED tvars

\* The context of the waiting conn.Exec is done: Exec returns the context's
\* error and DB.Lock returns nil and that error.
DBLockDeadline(p) ==
    /\ pc[p].op = "DBLock"
    /\ CtxDone(pc[p].ctx)
    /\ DBLockFailed(p)

\* Callers take and release session locks, and call the blocking Lock with
\* a context of db.WithTimeout, while time passes.
LockTimeoutNext ==
    \/ Tick
    \/ \E c \in {NilCtx} \cup DOMAIN ctxs : DBWithTimeout(c)
    \/ \E p \in Procs, k \in LockIds : DBLockCtx(p, k)
    \/ \E p \in Procs : DBLockGranted(p)
    \/ \E p \in Procs : DBLockDeadline(p)
    \/ \E p \in Procs, k \in LockIds, ok \in BOOLEAN : DBTryLock(p, k, ok)
    \/ \E p \in Procs, i \in DOMAIN locks : Release(p, i)
    \/ \E p \in Procs, ok \in BOOLEAN : ReleaseExec(p, ok)

\* Time passes, and the driver reports a context that is done.
LockTimeoutSpec ==
    /\ Init
    /\ [][LockTimeoutNext]_vars
    /\ WF_vars(Tick)
    /\ \A p \in Procs : WF_vars(DBLockDeadline(p))

(***************************************************************************)
(* Errors: IsDisconnected.  An SQLSTATE code is five characters, written   *)
(* here as its class (two characters) and the rest (three).                *)
(***************************************************************************)

OperatorIntervention == <<"57", "000">>
QueryCanceled == <<"57", "014">>
AdminShutdown == <<"57", "P01">>
CrashShutdown == <<"57", "P02">>
CannotConnectNow == <<"57", "P03">>
DatabaseDropped == <<"57", "P04">>
IdleSessionTimeout == <<"57", "P05">>

\* A list that holds the code the comment of IsDisconnected names, and no
\* other.
DisconnectsAdminShutdown == <<AdminShutdown>>

\* Disconnects is the list of the error codes that indicate the connection
\* failed.
Disconnects ==
    <<OperatorIntervention, QueryCanceled, AdminShutdown, CrashShutdown,
      CannotConnectNow, DatabaseDropped, IdleSessionTimeout>>

\* The codes the server may send: the classes and the rests tried.
Codes ==
    {"08", "23", "40", "53", "57", "58"}
        \X {"000", "001", "014", "P01", "P02", "P03", "P04", "P05", "P06"}

\* The errors a caller may pass: nil, a *pgconn.PgError, an error of another
\* type that wraps a *pgconn.PgError, and an error of another type that
\* wraps nothing.
Errs ==
    {[type |-> "nil"], [type |-> "error"]}
        \cup [type : {"*pgconn.PgError", "wraps *pgconn.PgError"}, Code : Codes]

\* for _, code := range Disconnects { if pgErr.Code == code { return true } }
\* from position i on; return false
RECURSIVE RangeDisconnects(_, _)
RangeDisconnects(pgErr, i) ==
    IF i > Len(Disconnects) THEN FALSE
    ELSE IF pgErr.Code = Disconnects[i] THEN TRUE
    ELSE RangeDisconnects(pgErr, i + 1)

\* IsDisconnected: false for nil; false when the type assertion
\* err.(*pgconn.PgError) fails; else the search of Disconnects.
IsDisconnected(err) ==
    IF err.type = "nil" THEN FALSE
    ELSE IF err.type # "*pgconn.PgError" THEN FALSE
    ELSE RangeDisconnects(err, 1)

\* A caller classifies an error.
IsDisconnectedCall(err) ==
    /\ ret' = [op |-> "IsDisconnected", arg |-> err, val |-> IsDisconnected(err)]
    /\ UNCHANGED <<pool, sess, rows, locks, txs, pc>>
    /\ UNCHANGED tvars

ErrorsNext == \E err \in Errs : IsDisconnectedCall(err)

ErrorsSpec == Init /\ [][ErrorsNext]_vars

(***************************************************************************)
(* The default timeout of a transaction: DB.Begin and Tx.Begin build the   *)
(* Tx, Tx.SetTimeout and Tx.WithTimeout use its field.                     *)
(***************************************************************************)

\* Tx.SetTimeout on transaction t: tx.defaultTimeout = dur
TxSetTimeoutOn(t, dur) ==
    /\ t \in DOMAIN txs
    /\ txs' = [txs EXCEPT ![t].defaultTimeout = dur, ![t].timeoutSet = TRUE]
    /\ UNCHANGED <<pool, sess, rows, locks, pc, ret>>
    /\ UNCHANGED tvars

\* Tx.WithTimeout on transaction t: timeout := tx.defaultTimeout
TxWithTimeoutOn(t, c) ==
    /\ t \in DOMAIN txs
    /\ WithTimeoutOf(txs[t].defaultTimeout, c)
    /\ UNCHANGED <<now, defaultTimeout, ctxtxs>>
    /\ UNCHANGED dbvars

\* The pool's timeout is configured, transactions are begun from the pool
\* and from one another, and contexts are derived through them.
TxTimeoutNext ==
    \/ Tick
    \/ \E dur \in Durations : DBSetTimeout(dur)
    \/ \E p \in Procs : DBBegin(p)
    \/ \E p \in Procs, t \in DOMAIN txs : TxBegin(p, t)
    \/ \E t \in DOMAIN txs, dur \in Durations : TxSetTimeoutOn(t, dur)
    \/ \E t \in DOMAIN txs, c \in {NilCtx} \cup DOMAIN ctxs : TxWithTimeoutOn(t, c)

TxTimeoutSpec == Init /\ [][TxTimeoutNext]_vars

(***************************************************************************)
(* Claims.                                                                 *)
(***************************************************************************)

\* The Session Locks on k that are acquired and not released.
SessionHolders(k) == {i \in DOMAIN locks : locks[i].ID = k /\ locks[i].conn # NoConn}

\* The Transaction Locks on k whose owning transaction has not ended, by the
\* Tx they were returned through.
TxLockOwners(k) == {t \in DOMAIN txs : k \in txs[t].xlocks /\ ~TxClosed(t)}

\* The sessions whose transaction holds k on the server.
XactHolders(k) == {c \in Conns : k \in XactLocks(c)}

AllIdle == \A p \in Procs : pc[p] = Idle

OtherHolder(c, k) ==
    \/ \E i \in SessionHolders(k) : locks[i].conn # c
    \/ \E d \in XactHolders(k) : d # c

C3_TryLockAfterRelease ==
    \A k \in LockIds :
        (/\ locks # <<>>
         /\ \A i \in DOMAIN locks : locks[i].conn = NoConn
         /\ Cardinality(Conns \ IdleConns) = Len(locks)
         /\ AllIdle
         /\ \A c \in Conns : ~HeldBy(c, k))
            => ENABLED (\E p \in Procs :
                          DBTryLock(p, k, TRUE) /\ ret' = Return("DBTryLock", ErrNil))

\* C4 as stated, in the state after the holder has released: a Session Lock
\* on k was held and is released, every connection ever checked out was
\* checked out for a Session Lock, every Session Lock has been released and no
\* call is in progress.  A blocking Lock(k) then gets to the server, where the
\* free lock is granted to it.
C4_LockAfterRelease ==
    \A k \in LockIds :
        (/\ \E i \in DOMAIN locks : locks[i].ID = k /\ locks[i].unlocks > 0
         /\ \A i \in DOMAIN locks : locks[i].conn = NoConn
         /\ Cardinality(Conns \ IdleConns) = Len(locks)
         /\ AllIdle)
            => ENABLED (\E p \in Procs : DBLock(p, k))

C6_TryLockNoLeak ==
    [][\A p \in Procs, k \in LockIds :
          (DBTryLock(p, k, TRUE) /\ ret' = Return("DBTryLock", ErrLocked))
              => IdleConns' = IdleConns]_vars

\* C7 as stated: a Release that executes the unlock with success returns the
\* lock's connection to the pool.
C7_ReleaseReturnsConn ==
    [][\A p \in Procs, c \in Conns :
          (ReleaseExec(p, TRUE) /\ c = pc[p].conn)
              => /\ locks[pc[p].lock].ID \notin sess'[c].slocks
                 /\ pool'[c] = "idle"]_vars

\* C8: a released Session Lock stays released: no step clears or sets its
\* connection again or executes another unlock for it, its mutex is free, and
\* every Release on it returns nil in the step of the call, touching neither
\* the server nor the pool.
C8_ReleaseIdempotent ==
    [][\A i \in DOMAIN locks :
          locks[i].conn = NoConn =>
              /\ locks[i].mutex = 0
              /\ locks'[i] = locks[i]
              /\ \A p \in Procs :
                    Release(p, i) => /\ ret' = Return("Release", ErrNil)
                                     /\ pc'[p] = Idle
                                     /\ sess' = sess
                                     /\ pool' = pool]_vars

\* C8 witness: Release has returned nil on a lock that is released, while a
\* second lock is still held: the Release that returned last was a repeated
\* one.
C8_Witness ==
    /\ ret = Return("Release", ErrNil)
    /\ AllIdle
    /\ Len(locks) = 2
    /\ locks[1].conn = NoConn /\ locks[1].unlocks = 1
    /\ locks[2].conn # NoConn /\ locks[2].unlocks = 0
    /\ sess[locks[2].conn].slocks = {locks[2].ID}

\* C9: whatever the interleaving of the Release calls on a Session Lock, at
\* most one of them is at the unlock statement at a time, it is there with
\* the connection still set, the unlock is executed with success at most
\* once, and a released lock has had exactly one.
C9_OneUnlock ==
    \A i \in DOMAIN locks :
        /\ locks[i].unlocks <= 1
        /\ Cardinality({p \in Procs : pc[p].op = "Release" /\ pc[p].lock = i}) <= 1
        /\ \A p \in Procs :
              (pc[p].op = "Release" /\ pc[p].lock = i)
                  => locks[i].conn # NoConn /\ locks[i].mutex = p
        /\ locks[i].conn = NoConn <=> locks[i].unlocks = 1

\* C9 witness: one caller is at the unlock statement of a lock while a second
\* caller, free to call, cannot get into Release on the same lock.
C9_Witness ==
    \E i \in DOMAIN locks, p, q \in Procs :
        /\ p # q
        /\ pc[p].op = "Release" /\ pc[p].lock = i
        /\ pc[q] = Idle
        /\ ~ENABLED Release(q, i)

\* C10: a Close of a transaction whose Commit returned nil changes neither
\* the committed rows, nor any session of the server, nor the pool; and the
\* row inserted and committed through a real transaction stays in the
\* database.
C10_CloseAfterCommit ==
    [][/\ \A p \in Procs, t \in DOMAIN txs :
            (TxClose(p, t) /\ txs[t].committed)
                => rows' = rows /\ sess' = sess /\ pool' = pool
       /\ rows \subseteq rows'
      ]_vars

\* C10 witness: Close has returned on a real transaction that had committed
\* its row, and the row is in the database.
C10_Witness ==
    /\ ret = Return("TxClose", ErrTxClosed)
    /\ Len(txs) = 1
    /\ txs[1].committed /\ txs[1].closed
    /\ 1 \in rows

\* C11 as stated: a Close of a transaction whose Commit returned nil returns
\* nil.
C11_Original ==
    [][\A p \in Procs, t \in DOMAIN txs :
          (TxClose(p, t) /\ txs[t].committed)
              => ret' = Return("TxClose", ErrNil)]_vars

\* C11 (as amended): a Close of a transaction whose Commit returned nil
\* returns the driver's ErrTxClosed: Tx.Close hands the error of the
\* driver's Rollback to the caller as it is.
C11_CloseAfterCommitReturnsErrTxClosed ==
    [][\A p \in Procs, t \in DOMAIN txs :
          (TxClose(p, t) /\ txs[t].committed)
              => ret' = Return("TxClose", ErrTxClosed)]_vars

\* C11 witness: a nested transaction and its real transaction have both
\* committed, and a Close has then returned ErrTxClosed.
C11_Witness ==
    /\ ret = Return("TxClose", ErrTxClosed)
    /\ Len(txs) = 2
    /\ txs[2].root = 1
    /\ txs[1].committed /\ txs[2].committed

\* C12: a Close of a transaction that is closed (it was committed or closed,
\* or its real transaction was) returns ErrTxClosed and changes neither the
\* rows, nor any session, nor the pool, nor any lock; the transaction stays
\* closed, what its Commit did stays recorded, and a transaction that was
\* itself committed or closed is left exactly as it was.
C12_CloseClosed ==
    [][\A p \in Procs, t \in DOMAIN txs :
          (TxClose(p, t) /\ (txs[t].closed \/ txs[txs[t].root].closed))
              => /\ ret' = Return("TxClose", ErrTxClosed)
                 /\ rows' = rows /\ sess' = sess /\ pool' = pool /\ locks' = locks
                 /\ txs'[t].closed
                 /\ txs'[t].committed = txs[t].committed
                 /\ txs[t].closed => txs' = txs]_vars

\* C12 witness: the only transaction was closed without a commit, and a
\* further Close on it has returned ErrTxClosed.
C12_Witness ==
    /\ ret = Return("TxClose", ErrTxClosed)
    /\ Len(txs) = 1
    /\ txs[1].closed /\ ~txs[1].committed
    /\ rows = {}

\* The transactions of real transaction t: t and the nested transactions
\* begun from it, directly or not.
Family(t) == {u \in DOMAIN txs : txs[u].root = t}

\* C13: a Close of a real transaction that is not closed returns nil, ends
\* the transaction of its session and leaves the committed rows as they are:
\* no row inserted through the transaction or its nested transactions is in
\* the database, then or at any later time.
C13_CloseRollsBack ==
    [][/\ \A p \in Procs, t \in DOMAIN txs, c \in Conns :
            (TxClose(p, t) /\ txs[t].sp = 0 /\ ~txs[t].closed /\ c = txs[t].conn)
                => /\ ret' = Return("TxClose", ErrNil)
                   /\ sess'[c].stack = <<>>
                   /\ rows' = rows
       /\ \A t \in DOMAIN txs :
            (txs[t].sp = 0 /\ txs[t].closed /\ ~txs[t].committed)
                => \A u \in Family(t) : u \notin rows'
      ]_vars

\* C13 witness: a row was inserted through the only transaction, Close has
\* returned nil on it without a Commit, and the database holds no row.
C13_Witness ==
    /\ ret = Return("TxClose", ErrNil)
    /\ Len(txs) = 1
    /\ txs[1].wrote /\ txs[1].closed /\ ~txs[1].committed
    /\ rows = {}
    /\ sess[txs[1].conn].stack = <<>>

\* The rows pending in session s below position j of its stack: those
\* inserted before the savepoint at j was set and not rolled back since.
RowsBelow(s, j) == UNION {s.stack[i].rows : i \in 1..(j - 1)}

\* C14 as stated: a Close of a nested transaction that is not closed discards
\* exactly the rows inserted through it: every other pending row of the
\* session stays pending.
C14_Original ==
    [][\A p \in Procs, t \in DOMAIN txs, c \in Conns :
          (/\ TxClose(p, t) /\ txs[t].sp # 0 /\ ~TxClosed(t)
           /\ c = txs[t].conn /\ FrameOf(sess[c], txs[t].sp) # 0)
              => PendingRows(sess[c])' = PendingRows(sess[c]) \ {t}]_vars

\* C14 (as amended): a Close of a nested transaction T2 whose savepoint
\* exists returns nil and discards the rows inserted on the connection since
\* T2's Begin, through T2 or through any other transaction of the connection:
\* the rows pending from before T2's Begin stay pending, the committed rows
\* stay as they are, and the transaction is not left aborted.  A Commit of
\* the real transaction that returns nil persists exactly the rows then
\* pending.
C14_NestedCloseScope ==
    [][/\ \A p \in Procs, t \in DOMAIN txs, c \in Conns :
            (/\ TxClose(p, t) /\ txs[t].sp # 0 /\ ~TxClosed(t)
             /\ c = txs[t].conn /\ FrameOf(sess[c], txs[t].sp) # 0)
                => /\ ret' = Return("TxClose", ErrNil)
                   /\ PendingRows(sess[c])' =
                        RowsBelow(sess[c], FrameOf(sess[c], txs[t].sp))
                   /\ t \notin PendingRows(sess[c])'
                   /\ Len(sess'[c].stack) = FrameOf(sess[c], txs[t].sp) - 1
                   /\ ~sess'[c].aborted
                   /\ rows' = rows
       /\ \A p \in Procs, t \in DOMAIN txs, c \in Conns :
            (/\ TxCommit(p, t) /\ txs[t].sp = 0 /\ ~TxClosed(t)
             /\ c = txs[t].conn /\ ret' = Return("TxCommit", ErrNil))
                => rows' = rows \cup PendingRows(sess[c])
      ]_vars

\* C14 witness: T1 and its nested T2 have both inserted a row, T2 was closed
\* without a commit, T1 has committed, and only T1's row is in the database.
C14_Witness ==
    /\ ret = Return("TxCommit", ErrNil)
    /\ Len(txs) = 2
    /\ txs[2].root = 1
    /\ txs[1].wrote /\ txs[2].wrote
    /\ txs[2].closed /\ ~txs[2].committed
    /\ txs[1].committed
    /\ rows = {1}

\* C15: in every state, Commit, Rollback and Close on the pool return nil and
\* change nothing: no connection is checked out, returned or closed, and no
\* session, row, lock, transaction or call in progress is touched.
C15_PoolNoOps ==
    [][\A p \in Procs :
          (DBCommit(p) \/ DBRollback(p) \/ DBClose(p))
              => /\ ret'.err = ErrNil
                 /\ ret'.op \in {"DBCommit", "DBRollback", "DBClose"}
                 /\ UNCHANGED <<pool, sess, rows, locks, txs, pc>>]_vars

\* C15 witness: Close on the pool has returned nil while a transaction is
\* open and a Session Lock is held.
C15_Witness ==
    /\ ret = Return("DBClose", ErrNil)
    /\ \E t \in DOMAIN txs : ~TxClosed(t) /\ pool[txs[t].conn] = "out"
    /\ \E k \in LockIds : SessionHolders(k) # {}

\* C16: WithTimeout, on the pool or on a transaction, of a context that has a
\* deadline returns that context and fakeCancel, whatever the default
\* timeout: no context is derived and no context changes, so the deadline is
\* the one the caller gave; and invoking fakeCancel changes no context.
C16_DeadlineKept ==
    [][/\ \A h \in Handles, c \in DOMAIN ctxs :
            (WithTimeout(h, c) /\ ctxs[c].has)
                => /\ out' = [ctx |-> c, fake |-> TRUE]
                   /\ ctxs' = ctxs
                   /\ ctxs'[out'.ctx].deadline = ctxs[c].deadline
       /\ (Cancel /\ out.fake) => ctxs' = ctxs
      ]_vars

\* C16 witness: with a default timeout of one second configured, WithTimeout
\* has returned the caller's context, whose deadline is two seconds away,
\* with fakeCancel.
C16_Witness ==
    /\ out.fake /\ out.ctx \in DOMAIN ctxs
    /\ now = 0
    /\ defaultTimeout = [h \in Handles |-> 1]
    /\ ctxs[out.ctx].has /\ ctxs[out.ctx].deadline = 2
    /\ ~ctxs[out.ctx].cancelled

\* C17: WithTimeout, on the pool or on a transaction, of a nil context or of
\* a context without a deadline returns a new context whose deadline is now
\* plus the default timeout of the handle, or now plus one second when that
\* is zero, and a cancellation function that is not fakeCancel: invoking it
\* cancels the new context.  The contexts there were are left as they are.
C17_DefaultDeadline ==
    [][/\ \A h \in Handles, c \in {NilCtx} \cup DOMAIN ctxs :
            (WithTimeout(h, c) /\ (c = NilCtx \/ ~ctxs[c].has))
                => /\ out' = [ctx |-> Len(ctxs) + 1, fake |-> FALSE]
                   /\ Len(ctxs') = Len(ctxs) + 1
                   /\ \A i \in DOMAIN ctxs : ctxs'[i] = ctxs[i]
                   /\ ctxs'[out'.ctx].has
                   /\ ~ctxs'[out'.ctx].cancelled
                   /\ ctxs'[out'.ctx].deadline =
                        now + (IF defaultTimeout[h] = 0 THEN Second
                                                        ELSE defaultTimeout[h])
       /\ (Cancel /\ ~out.fake) => ctxs'[out.ctx].cancelled
      ]_vars

\* C17 witness: with no default timeout configured, WithTimeout called at
\* second 1 has returned a new context whose deadline is second 2.
C17_Witness ==
    /\ ~out.fake /\ out.ctx = 2 /\ Len(ctxs) = 2
    /\ now = 1
    /\ defaultTimeout = [h \in Handles |-> 0]
    /\ ctxs[2].has /\ ctxs[2].deadline = 2

\* C18 as stated: once Close has returned on a ContextualTx, the captured
\* cancellation function has been invoked exactly once in its lifetime.
C18_Original ==
    \A i \in DOMAIN ctxtxs :
        (ctxtxs[i].closes >= 1 /\ ~ctxtxs[i].closing) => ctxtxs[i].cancels = 1

\* C18: every call of Close on a ContextualTx rolls back first and then
\* invokes the captured cancellation function exactly once, whatever the
\* rollback returned and whether or not Commit was called before; Commit and
\* Rollback never invoke it.  So the function has been invoked once per call
\* of Close that returned, the transaction is closed while the invocation is
\* pending, and a context derived by BeginWithTimeout is cancelled from the
\* first Close on.
C18_CloseCancelsOncePerCall ==
    \A i \in DOMAIN ctxtxs :
        /\ ctxtxs[i].cancels =
               ctxtxs[i].closes - (IF ctxtxs[i].closing THEN 1 ELSE 0)
        /\ ctxtxs[i].closing => txs[ctxtxs[i].tx].closed
        /\ (ctxtxs[i].cancels >= 1 /\ ~ctxtxs[i].fake)
               => ctxs[ctxtxs[i].ctx].cancelled

\* A ContextualTx that was committed and then closed once: the rollback of
\* Close returned ErrTxClosed and the derived context is cancelled.
C18_Witness ==
    \E i \in DOMAIN ctxtxs :
        /\ txs[ctxtxs[i].tx].committed
        /\ ctxtxs[i].closes = 1
        /\ ~ctxtxs[i].closing
        /\ ctxtxs[i].cancels = 1
        /\ ret = Return("TxClose", ErrTxClosed)
        /\ ~ctxtxs[i].fake
        /\ ctxs[ctxtxs[i].ctx].cancelled

LockCalls == {"DBLock", "TxLock"}

\* C20: a blocking Lock, on the pool or on a transaction, never returns
\* ErrLocked: what it returns is a lock or the error of a failed connection
\* or driver call.  While another session holds the id the call is not
\* granted, and it ends only by such a failure; it returns a lock only when
\* no other session holds the id.
C20_LockWaits ==
    /\ [](ret.op \in LockCalls => ret.err \in {ErrNil, ErrDriver})
    /\ [](\A p \in Procs :
             (pc[p].op \in LockCalls /\ ~Available(pc[p].conn, pc[p].id))
                 => /\ ~ENABLED DBLockGranted(p)
                    /\ ~ENABLED TxLockGranted(p))
    /\ [][\A p \in Procs :
             (pc[p].op \in LockCalls /\ pc'[p] = Idle)
                 => /\ ret'.op = pc[p].op
                    /\ ret'.err # ErrLocked
                    /\ ret'.err = ErrNil => Available(pc[p].conn, pc[p].id)
                    /\ ~Available(pc[p].conn, pc[p].id) => ret'.err = ErrDriver
         ]_vars

\* A caller waits in Lock for an id that another session holds, after an
\* earlier blocking Lock has returned.
C20_Witness ==
    /\ \E p \in Procs :
          /\ pc[p].op \in LockCalls
          /\ ~Available(pc[p].conn, pc[p].id)
    /\ ret.op \in LockCalls

\* C21: a blocking Lock called with a context of WithTimeout does not hang:
\* a call that waits with a deadline the clock can reach eventually returns;
\* and a call that ends while another session holds the id ends because its
\* context is done, returns an error, and grants nothing: no lock object is
\* made and the server's sessions hold what they held.
C21_LockTimesOut ==
    /\ \A p \in Procs :
          (pc[p].op = "DBLock" /\ ctxs[pc[p].ctx].deadline <= MaxNow)
              ~> (pc[p] = Idle)
    /\ [][\A p \in Procs :
             (/\ pc[p].op = "DBLock"
              /\ pc'[p] = Idle
              /\ ~Available(pc[p].conn, pc[p].id))
                 => /\ ctxs[pc[p].ctx].deadline <= now
                    /\ ret' = Return("DBLock", ErrDriver)
                    /\ locks' = locks
                    /\ sess' = sess
         ]_vars

\* A Lock that waited under a deadline has returned an error while another
\* session holds the id: the clock is past the deadline, the only lock object
\* is the holder's.
C21_Witness ==
    /\ ret = Return("DBLock", ErrDriver)
    /\ \A p \in Procs : pc[p] = Idle
    /\ out # NoOut
    /\ ~out.fake
    /\ ctxs[out.ctx].deadline <= now
    /\ Len(locks) = 1
    /\ locks[1].conn # NoConn
    /\ HeldBy(locks[1].conn, locks[1].ID)
    /\ Cardinality(Conns \ IdleConns) = 2

C23_TxUsesPoolTimeout ==
    [][\A t \in DOMAIN txs, c \in {NilCtx} \cup DOMAIN ctxs :
           (/\ TxWithTimeoutOn(t, c)
            /\ ~HasDeadline(IF c = NilCtx THEN 1 ELSE c)
            /\ \A u \in DOMAIN txs : txs[u].root = txs[t].root => ~txs[u].timeoutSet
            /\ txs[txs[t].root].defaultTimeout = defaultTimeout["DB"])
               => ctxs'[out'.ctx] =
                      ContextWithTimeout(IF c = NilCtx THEN 1 ELSE c,
                                         Timeout(defaultTimeout["DB"]))
      ]_vars

\* C24 as stated: when BeginWithTimeout fails because the driver's begin
\* fails, no ContextualTx is made and the context derived for the call has
\* been cancelled when the call returns.
C24_FailedBeginCancels ==
    [][\A c \in {NilCtx} \cup DOMAIN ctxs :
           (DBBeginWithTimeout(c, FALSE) /\ ~out'.fake)
               => /\ ctxtxs' = ctxtxs
                  /\ ctxs'[out'.ctx].cancelled
      ]_vars

\* C25 as stated: when Lock or TryLock on the pool fails with a driver error
\* after its connection was checked out, the connection is back in the pool
\* when the error is returned.
C25_FailedLockReturnsConn ==
    [][\A p \in Procs :
           /\ DBLockFailed(p) => pool'[pc[p].conn] = "idle"
           /\ \A k \in LockIds : DBTryLock(p, k, FALSE) => IdleConns' = IdleConns
      ]_vars

\* C26: the connection of a Session Lock that is acquired and not released
\* is checked out of the pool and is the lock's alone: it is not idle, so no
\* Begin, Lock or TryLock can be handed it; no other unreleased Session Lock
\* has it, no open transaction runs on it, and no blocking Lock waits on it.
C26_DedicatedConn ==
    \A i \in DOMAIN locks :
        locks[i].conn # NoConn =>
            /\ pool[locks[i].conn] = "out"
            /\ locks[i].conn \notin IdleConns
            /\ \A j \in DOMAIN locks \ {i} : locks[j].conn # locks[i].conn
            /\ \A t \in DOMAIN txs :
                   ~txs[txs[t].root].closed => txs[t].conn # locks[i].conn
            /\ \A p \in Procs :
                   pc[p].op \in LockCalls => pc[p].conn # locks[i].conn

\* A Session Lock is held on one connection while a transaction is open on
\* another, begun after the lock was taken.
C26_Witness ==
    \E i \in DOMAIN locks, t \in DOMAIN txs :
        /\ locks[i].conn # NoConn
        /\ HeldBy(locks[i].conn, locks[i].ID)
        /\ ~TxClosed(t)
        /\ txs[t].conn # locks[i].conn
        /\ locks[i].conn < txs[t].conn

\* C27: a Commit of a transaction that is closed (it was committed, rolled
\* back or closed, or its real transaction was) returns ErrTxClosed and
\* changes neither the rows, nor any session, nor the pool, nor any lock:
\* what was committed stays committed, what was discarded stays discarded,
\* and a transaction that was itself closed is left exactly as it was.
C27_CommitClosed ==
    [][\A p \in Procs, t \in DOMAIN txs :
          (TxCommit(p, t) /\ (txs[t].closed \/ txs[txs[t].root].closed))
              => /\ ret' = Return("TxCommit", ErrTxClosed)
                 /\ rows' = rows /\ sess' = sess /\ pool' = pool /\ locks' = locks
                 /\ txs'[t].closed
                 /\ txs'[t].committed = txs[t].committed
                 /\ txs[t].closed => txs' = txs]_vars

\* Two transactions inserted a row each; the first was committed and the
\* second closed, and a further Commit has then returned ErrTxClosed: the
\* row of the first is in the database, the row of the second is not.
C27_Witness ==
    /\ ret = Return("TxCommit", ErrTxClosed)
    /\ Len(txs) = 2
    /\ txs[1].sp = 0 /\ txs[2].sp = 0
    /\ txs[1].wrote /\ txs[1].committed
    /\ txs[2].wrote /\ txs[2].closed /\ ~txs[2].committed
    /\ rows = {1}

\* C28 as stated: whenever no call is in progress, the connections checked
\* out of the pool for locking (those checked out and not running an open
\* transaction) are as many as the Session Locks acquired and not released.
C28_ConnConservation ==
    LET txconns == {txs[t].conn : t \in {u \in DOMAIN txs :
                                            txs[u].sp = 0 /\ ~txs[u].closed}}
        lockconns == (Conns \ IdleConns) \ txconns
        unreleased == {i \in DOMAIN locks : locks[i].conn # NoConn}
    IN (\A p \in Procs : pc[p] = Idle)
           => Cardinality(lockconns) = Cardinality(unreleased)

\* C29: when the unlock statement of a Release fails, Release returns the
\* error and leaves the lock as it was before the call: same id, same
\* connection, mutex free, the session still holding what it held.  A
\* Release on a lock that has its connection does not return nil at once: it
\* goes on to the unlock statement, on that connection.
C29_FailedReleaseKeepsLock ==
    [][\A p \in Procs :
          /\ ReleaseExec(p, FALSE)
                => /\ ret' = Return("Release", ErrDriver)
                   /\ locks'[pc[p].lock] = [locks[pc[p].lock] EXCEPT !.mutex = 0]
                   /\ locks'[pc[p].lock].conn = pc[p].conn
                   /\ locks'[pc[p].lock].conn # NoConn
                   /\ sess' = sess
          /\ \A i \in DOMAIN locks :
                (Release(p, i) /\ locks[i].conn # NoConn)
                    => /\ pc'[p] = [op |-> "Release", lock |-> i,
                                   conn |-> locks[i].conn]
                       /\ ret' = ret
      ]_vars

\* The unlock of the only Session Lock has failed, and a further Release on
\* the lock is at its unlock statement.
C29_Witness ==
    /\ ret = Return("Release", ErrDriver)
    /\ Len(locks) = 1
    /\ locks[1].conn # NoConn
    /\ \E p \in Procs : pc[p].op = "Release" /\ pc[p].lock = 1

\* C30: a Session Lock, made by DB.Lock or DB.TryLock, keeps the connection
\* its lock statement ran on: while it is unreleased the session of its
\* connection holds its id.  A Release that unlocks does so for the lock's
\* own id on the lock's own connection, where the id was held, and changes
\* no other session.
C30_ReleaseOnOwnConn ==
    /\ [](\A i \in DOMAIN locks :
             locks[i].conn # NoConn => locks[i].ID \in sess[locks[i].conn].slocks)
    /\ [][\A p \in Procs :
             /\ DBLockGranted(p)
                   => locks'[Len(locks')] = NewLock(pc[p].id, pc[p].conn)
             /\ \A k \in LockIds :
                   (DBTryLock(p, k, TRUE) /\ ret'.err = ErrNil)
                       => /\ locks'[Len(locks')].ID = k
                          /\ locks'[Len(locks')].conn = AcquireConn
                          /\ k \in sess'[AcquireConn].slocks
             /\ ReleaseExec(p, TRUE)
                   => /\ pc[p].conn = locks[pc[p].lock].conn
                      /\ locks[pc[p].lock].ID \in sess[pc[p].conn].slocks
                      /\ sess' = [sess EXCEPT ![locks[pc[p].lock].conn].slocks =
                                                  @ \ {locks[pc[p].lock].ID}]
         ]_vars

\* Two Session Locks were taken one after the other on different
\* connections and both were released: no session holds the id.
C30_Witness ==
    /\ ret = Return("Release", ErrNil)
    /\ Len(locks) = 2
    /\ locks[1].unlocks = 1 /\ locks[2].unlocks = 1
    /\ locks[1].conn = NoConn /\ locks[2].conn = NoConn
    /\ \A c \in Conns : sess[c].slocks = {}
    /\ Cardinality(Conns \ IdleConns) = 2

\* C31: Commit of a nested transaction only releases its savepoint: the step
\* makes no row durable, keeps the connection checked out and the real
\* transaction open on the server with the rows of the nested transaction
\* pending in it.  While the real transaction is not committed, no row
\* inserted through it or through a nested transaction, committed or not, is
\* in the database: when it is closed without Commit nothing persists.
C31_NestedCommitNotDurable ==
    /\ [](\A u \in DOMAIN txs :
             ~txs[txs[u].root].committed => u \notin rows)
    /\ [][\A p \in Procs, t \in DOMAIN txs :
             (TxCommit(p, t) /\ ~TxClosed(t) /\ txs[t].sp # 0)
                 => /\ rows' = rows
                    /\ pool' = pool
                    /\ ret'.err = ErrNil =>
                          /\ sess'[txs[t].conn].stack # <<>>
                          /\ PendingRows(sess'[txs[t].conn])
                                 = PendingRows(sess[txs[t].conn])
         ]_vars

\* T1 and its child T2 each inserted a row, T2 was committed, and T1 was
\* then closed without Commit: the Close returned nil and no row is in the
\* database.
C31_Witness ==
    /\ ret = Return("TxClose", ErrNil)
    /\ Len(txs) = 2
    /\ txs[1].sp = 0 /\ txs[2].sp # 0 /\ txs[2].root = 1
    /\ txs[1].wrote /\ txs[2].wrote
    /\ txs[2].committed
    /\ txs[1].closed /\ ~txs[1].committed
    /\ rows = {}
    /\ sess[txs[1].conn].stack = <<>>

\* C32: BeginWithTimeout on a context that already carries a deadline derives
\* no context: the call leaves every context as it was and the ContextualTx
\* it returns captures the caller's context itself, with fakeCancel.  Close on
\* such a ContextualTx, its rollback and its deferred cancel, changes no
\* context: the caller's context is as cancelled or uncancelled after Close
\* as before, with the same deadline.  A ContextualTx whose cancel is
\* fakeCancel always holds a context with a deadline.
C32_CloseKeepsCallerContext ==
    /\ [](\A i \in DOMAIN ctxtxs : ctxtxs[i].fake => ctxs[ctxtxs[i].ctx].has)
    /\ [][/\ \A c \in DOMAIN ctxs, ok \in BOOLEAN :
               (DBBeginWithTimeout(c, ok) /\ ctxs[c].has)
                   => /\ ctxs' = ctxs
                      /\ ok => /\ ctxtxs'[Len(ctxtxs')].ctx = c
                               /\ ctxtxs'[Len(ctxtxs')].fake
          /\ \A i \in DOMAIN ctxtxs :
               ctxtxs[i].fake =>
                   /\ \A ok \in BOOLEAN : ContextualTxClose(i, ok) => ctxs' = ctxs
                   /\ ContextualTxCloseReturn(i)
                          => /\ ctxs' = ctxs
                             /\ ctxtxs'[i].cancels = ctxtxs[i].cancels + 1
       ]_vars

\* A ContextualTx begun on the caller's own context, which has a deadline in
\* the future, has been closed: the rollback returned nil, its cancel was
\* invoked, and the caller's context is not cancelled and keeps its deadline.
C32_Witness ==
    \E i \in DOMAIN ctxtxs :
        /\ ctxtxs[i].fake
        /\ ctxtxs[i].ctx = 2
        /\ ctxs[2] = CallerCtx(TRUE, MaxNow)
        /\ ctxtxs[i].closes = 1 /\ ctxtxs[i].cancels = 1
        /\ ~ctxtxs[i].closing
        /\ txs[ctxtxs[i].tx].closed
        /\ ret = Return("TxClose", ErrNil)
        /\ Len(ctxs) = 2

====
